---- MODULE Spec2Model ----
\* A model of llmcli's REPL: run_chat, handle_command and handle_chat_message
\* (src/src/main.rs) and the no-op backend (src/src/chatbots/dummy.rs).
\*
\* Text is modelled as a sequence of characters (one-character strings), so
\* that tokenisation, joining and formatting are computed as the code does.
EXTENDS Integers, Sequences, FiniteSets, TLC

VARIABLES
    pc,            \* position of run_chat: "start", "await", "send", "stream", "done"
    system_prompt, \* run_chat argument (None or text)
    prompt,        \* run_chat argument (None or text)
    isTerminal,    \* io::stdin().is_terminal()
    session,       \* Session: [messages |-> sequence of Message]
    chatbot,       \* the Box<dyn Chatbot> handle
    disk,          \* persisted session records: name -> record
    stream,        \* ResponseStream of the current handle_chat_message call (all items)
    pos,           \* number of stream items already taken by stream.next()
    full_resp,     \* local of handle_chat_message
    printed,       \* chunks written by print! during the current call, in order
    ret,           \* value returned by the last handle_chat_message call
    report,        \* Printer messages emitted by the last loop iteration
    cmdResult,     \* value returned by the last handle_command call
    result,        \* value returned by run_chat ("Running" until it returns)
    lastLine,      \* the input of the last loop iteration (local `input`)
    event,         \* kind of the last step taken
    before,        \* history: session.messages when the last line was read
    saved,         \* history: name -> session.messages at the last /save of name in this run
    repeat,        \* history: the last line read equals the line read before it
    prevDummy      \* history: the line read before the last one was a successful `/chatbot dummy`

vars == <<pc, system_prompt, prompt, isTerminal, session, chatbot, disk, stream,
          pos, full_resp, printed, ret, report, cmdResult, result, lastLine,
          event, before, saved, repeat, prevDummy>>

\* Option: None is <<>>, Some(x) is <<x>>
None == <<>>
Some(x) == <<x>>

\* Command names matched by handle_command.
CLEAR == <<"/", "c", "l", "e", "a", "r">>  \* "/clear"
C_ == <<"/", "c">>  \* "/c"
SYSTEM == <<"/", "s", "y", "s", "t", "e", "m">>  \* "/system"
SYS == <<"/", "s", "y", "s">>  \* "/sys"
CHATBOT == <<"/", "c", "h", "a", "t", "b", "o", "t">>  \* "/chatbot"
CB == <<"/", "c", "b">>  \* "/cb"
LIST_CHATBOTS == <<"/", "l", "i", "s", "t", "_", "c", "h", "a", "t", "b", "o", "t", "s">>  \* "/list_chatbots"
LC == <<"/", "l", "c">>  \* "/lc"
MODEL == <<"/", "m", "o", "d", "e", "l">>  \* "/model"
M_ == <<"/", "m">>  \* "/m"
LIST_MODELS == <<"/", "l", "i", "s", "t", "_", "m", "o", "d", "e", "l", "s">>  \* "/list_models"
LM == <<"/", "l", "m">>  \* "/lm"
INFO == <<"/", "i", "n", "f", "o">>  \* "/info"
I_ == <<"/", "i">>  \* "/i"
HELP == <<"/", "h", "e", "l", "p">>  \* "/help"
H_ == <<"/", "h">>  \* "/h"
SAVE == <<"/", "s", "a", "v", "e">>  \* "/save"
S_ == <<"/", "s">>  \* "/s"
LOAD == <<"/", "l", "o", "a", "d">>  \* "/load"
L_ == <<"/", "l">>  \* "/l"
SESSIONS == <<"/", "s", "e", "s", "s", "i", "o", "n", "s">>  \* "/sessions"
SE == <<"/", "s", "e">>  \* "/se"
DELETE == <<"/", "d", "e", "l", "e", "t", "e">>  \* "/delete"
D_ == <<"/", "d">>  \* "/d"
QUIT == <<"/", "q", "u", "i", "t">>  \* "/quit"
Q_ == <<"/", "q">>  \* "/q"

\* Argument literals of handle_command and run_chat.
GEMINI == <<"g", "e", "m", "i", "n", "i">>  \* "gemini"
DUMMY == <<"d", "u", "m", "m", "y">>  \* "dummy"
GEMINI_FLASH == <<"g", "e", "m", "i", "n", "i", "-", "1", ".", "5", "-", "f", "l", "a", "s", "h">>  \* "gemini-1.5-flash"
ONE == <<"1">>  \* "1"
DASH == <<"-">>  \* "-"
SPACE == <<" ">>  \* " "

\* Literals of DummyChatbot::send_message.
DUMMY_EMPTY == <<"D", "u", "m", "m", "y", " ", "r", "e", "s", "p", "o", "n", "s", "e", " ", "t", "o", " ", "e", "m", "p", "t", "y", " ", "c", "o", "n", "v", "e", "r", "s", "a", "t", "i", "o", "n", ".">>  \* "Dummy response to empty conversation."
DUMMY_TO == <<"D", "u", "m", "m", "y", " ", "r", "e", "s", "p", "o", "n", "s", "e", " ", "t", "o", ":", " ", "\"">>  \* "Dummy response to: \""
DUMMY_TO_END == <<"\"", ".">>  \* "\"."
DUMMY_PLAIN == <<"D", "u", "m", "m", "y", " ", "r", "e", "s", "p", "o", "n", "s", "e", ".">>  \* "Dummy response."
NAME_DUMMY == <<"D", "u", "m", "m", "y">>  \* "Dummy"

\* Input lines typed at the prompt.
L_EMPTY == <<>>  \* ""
L_BLANK == <<" ", "\t">>  \* " \t"
L_HELLO == <<"h", "e", "l", "l", "o">>  \* "hello"
L_CLEAR == <<"/", "c", "l", "e", "a", "r">>  \* "/clear"
L_C == <<"/", "c">>  \* "/c"
L_SYSTEM_TERSE == <<"/", "s", "y", "s", "t", "e", "m", " ", "Y", "o", "u", " ", "a", "r", "e", " ", "t", "e", "r", "s", "e", ".">>  \* "/system You are terse."
L_SYS_BRIEF == <<"/", "s", "y", "s", " ", " ", "b", "e", " ", "\t", " ", "b", "r", "i", "e", "f", " ">>  \* "/sys  be \t brief "
L_SYSTEM == <<"/", "s", "y", "s", "t", "e", "m">>  \* "/system"
L_CHATBOT_DUMMY == <<"/", "c", "h", "a", "t", "b", "o", "t", " ", "d", "u", "m", "m", "y">>  \* "/chatbot dummy"
L_CB_GEMINI == <<"/", "c", "b", " ", "g", "e", "m", "i", "n", "i">>  \* "/cb gemini"
L_CHATBOT_BOGUS == <<"/", "c", "h", "a", "t", "b", "o", "t", " ", "b", "o", "g", "u", "s">>  \* "/chatbot bogus"
L_CHATBOT == <<"/", "c", "h", "a", "t", "b", "o", "t">>  \* "/chatbot"
L_MODEL_FLASH == <<"/", "m", "o", "d", "e", "l", " ", "g", "e", "m", "i", "n", "i", "-", "1", ".", "5", "-", "f", "l", "a", "s", "h">>  \* "/model gemini-1.5-flash"
L_M_BOGUS == <<"/", "m", " ", "b", "o", "g", "u", "s">>  \* "/m bogus"
L_MODEL == <<"/", "m", "o", "d", "e", "l">>  \* "/model"
L_LIST_CHATBOTS == <<"/", "l", "i", "s", "t", "_", "c", "h", "a", "t", "b", "o", "t", "s">>  \* "/list_chatbots"
L_LM == <<"/", "l", "m">>  \* "/lm"
L_INFO == <<"/", "i", "n", "f", "o">>  \* "/info"
L_HELP == <<"/", "h">>  \* "/h"
L_SAVE_N == <<"/", "s", "a", "v", "e", " ", "n">>  \* "/save n"
L_SAVE == <<"/", "s">>  \* "/s"
L_LOAD_N == <<"/", "l", "o", "a", "d", " ", "n">>  \* "/load n"
L_LOAD == <<"/", "l">>  \* "/l"
L_SESSIONS == <<"/", "s", "e", "s", "s", "i", "o", "n", "s">>  \* "/sessions"
L_DELETE_N == <<"/", "d", "e", "l", "e", "t", "e", " ", "n">>  \* "/delete n"
L_DELETE == <<"/", "d">>  \* "/d"
L_QUIT == <<"/", "q", "u", "i", "t">>  \* "/quit"
L_Q == <<"/", "q">>  \* "/q"
L_BOGUS == <<"/", "b", "o", "g", "u", "s">>  \* "/bogus"
L_SLASH == <<"/">>  \* "/"

\* Other texts.
T_TERSE == <<"Y", "o", "u", " ", "a", "r", "e", " ", "t", "e", "r", "s", "e", ".">>  \* "You are terse."
T_BRIEF == <<"b", "e", " ", "b", "r", "i", "e", "f">>  \* "be brief"
T_HELLO == <<"h", "e", "l", "l", "o">>  \* "hello"
T_HI_NL == <<"h", "i", "\n">>  \* "hi\n"
T_N == <<"n">>  \* "n"
T_X == <<"x">>  \* "x"
T_AB == <<"a", "b">>  \* "ab"
T_C == <<"c">>  \* "c"
T_GEMINI_PRO == <<"g", "e", "m", "i", "n", "i", "-", "1", ".", "5", "-", "p", "r", "o">>  \* "gemini-1.5-pro"
NAME_GEMINI == <<"G", "e", "m", "i", "n", "i">>  \* "Gemini"
INVALID_MODEL == <<"I", "n", "v", "a", "l", "i", "d", "M", "o", "d", "e", "l", "E", "r", "r", "o", "r">>  \* "InvalidModelError"
T_DUMMY_HELLO == <<"D", "u", "m", "m", "y", " ", "r", "e", "s", "p", "o", "n", "s", "e", " ", "t", "o", ":", " ", "\"", "h", "e", "l", "l", "o", "\"", ".">>  \* "Dummy response to: \"hello\"."

-----------------------------------------------------------------------------
\* Bounds.

\* A chat line is read only while the transcript is shorter than this.
MaxMsgs == 2
\* Longest response stream of a network backend.
MaxChunks == 2

-----------------------------------------------------------------------------
\* Text operations (Rust std).

\* char::is_whitespace, on the characters that occur
IsWhitespace(c) == c \in {" ", "\t", "\n"}

RECURSIVE SplitFrom(_, _, _, _)
SplitFrom(s, i, cur, acc) ==
    IF i > Len(s)
    THEN IF cur = <<>> THEN acc ELSE Append(acc, cur)
    ELSE IF IsWhitespace(s[i])
         THEN SplitFrom(s, i + 1, <<>>, IF cur = <<>> THEN acc ELSE Append(acc, cur))
         ELSE SplitFrom(s, i + 1, Append(cur, s[i]), acc)

\* line.split_whitespace().collect()
split_whitespace(s) == SplitFrom(s, 1, <<>>, <<>>)

\* variant of trim_is_empty: the line is tested without trimming it
is_empty_untrimmed(s) == s = <<>>

\* input.trim().is_empty()
trim_is_empty(s) == \A i \in 1..Len(s) : IsWhitespace(s[i])

\* variant of starts_with_slash: a lone "/" is not a command
starts_with_slash_and_name(s) == Len(s) > 1 /\ s[1] = "/"

\* input.starts_with('/')
starts_with_slash(s) == Len(s) > 0 /\ s[1] = "/"

RECURSIVE join(_, _)
\* parts.join(sep)
join(parts, sep) ==
    IF parts = <<>> THEN <<>>
    ELSE IF Len(parts) = 1 THEN parts[1]
    ELSE parts[1] \o sep \o join(Tail(parts), sep)

-----------------------------------------------------------------------------
\* Message / Role (lib.rs).

Role == {"System", "User", "Assistant"}

Message_new(role, content) == [role |-> role, content |-> content]

\* serde tag written for a Role (rename_all = "lowercase")
RoleTag(role) ==
    CASE role = "System" -> "system"
      [] role = "User" -> "user"
      [] role = "Assistant" -> "assistant"

NoRole == "NoRole"

\* Role read from a serde tag ("model" is an alias of Assistant); NoRole if unknown
TagRole(tag) ==
    CASE tag = "system" -> "System"
      [] tag = "user" -> "User"
      [] tag \in {"assistant", "model"} -> "Assistant"
      [] OTHER -> NoRole

-----------------------------------------------------------------------------
\* Backends.

\* DummyChatbot::create: a unit struct; both arguments are ignored.
DummyChatbot_create(model, api_key) == [kind |-> "Dummy"]

\* GeminiChatbot::create on success
GeminiChatbot_create(model, api_key) == [kind |-> "Gemini", model |-> model]

\* DummyChatbot::name
DummyChatbot_name == NAME_DUMMY

\* DummyChatbot::model
DummyChatbot_model == ONE

\* DummyChatbot::change_model: Ok(()) whatever the name; nothing changes
DummyChatbot_change_model(cb, new_model) == [ok |-> TRUE, chatbot |-> cb]

\* models the network backend accepts
GeminiModels == <<GEMINI_FLASH, T_GEMINI_PRO>>

\* GeminiChatbot::change_model: InvalidModelError unless the model is supported
GeminiChatbot_change_model(cb, new_model) ==
    IF \E i \in 1..Len(GeminiModels) : GeminiModels[i] = new_model
    THEN [ok |-> TRUE, chatbot |-> [cb EXCEPT !.model = new_model]]
    ELSE [ok |-> FALSE, chatbot |-> cb]

\* dyn Chatbot dispatch: chatbot.name()
name(cb) == IF cb.kind = "Dummy" THEN DummyChatbot_name ELSE NAME_GEMINI

\* dyn Chatbot dispatch: chatbot.model()
model(cb) == IF cb.kind = "Dummy" THEN DummyChatbot_model ELSE cb.model

\* dyn Chatbot dispatch: chatbot.available_models()
available_models(cb) == IF cb.kind = "Dummy" THEN <<DummyChatbot_model>> ELSE GeminiModels

\* dyn Chatbot dispatch: chatbot.change_model(new_model), as [ok, chatbot]
change_model(cb, new_model) ==
    IF cb.kind = "Dummy"
    THEN DummyChatbot_change_model(cb, new_model)
    ELSE GeminiChatbot_change_model(cb, new_model)

\* Result values
Ok(text) == [ok |-> TRUE, text |-> text]
Err(e) == [ok |-> FALSE, err |-> e]

\* variant of DummyMsg: the last message is echoed whatever its role
DummyMsgAnyRole(messages) ==
    IF messages = <<>>
    THEN DUMMY_EMPTY
    ELSE DUMMY_TO \o messages[Len(messages)].content \o DUMMY_TO_END

\* the text DummyChatbot::send_message puts in its single chunk
DummyMsg(messages) ==
    IF messages = <<>>
    THEN DUMMY_EMPTY
    ELSE LET last_msg == messages[Len(messages)]
         IN  IF last_msg.role = "User"
             THEN DUMMY_TO \o last_msg.content \o DUMMY_TO_END
             ELSE DUMMY_PLAIN

\* DummyChatbot::send_message: always Ok(stream) with one Ok item
DummyChatbot_send_message(messages) ==
    [ok |-> TRUE, stream |-> <<Ok(DummyMsg(messages))>>]

\* ChatbotError variants that occur in the model
ChatbotErrors == {"Timeout", "ServerError"}

Chunks == {T_AB, T_C}

StreamItems == {Ok(c) : c \in Chunks} \cup {Err("Timeout")}

\* streams a network backend may return: any finite sequence of fallible chunks
Streams == UNION {[1..n -> StreamItems] : n \in 0..MaxChunks}

\* Chatbot::send_message of a network backend: any Result<ResponseStream, ChatbotError>
SendOutcomes ==
    {[ok |-> TRUE, stream |-> s] : s \in Streams}
        \cup {[ok |-> FALSE, err |-> e] : e \in ChatbotErrors}

-----------------------------------------------------------------------------
\* Session persistence.

Session_new == [messages |-> <<>>]

\* the record Session::save writes: the ordered (role tag, content) pairs
Serialize(s) ==
    [i \in 1..Len(s.messages) |->
        [role |-> RoleTag(s.messages[i].role), content |-> s.messages[i].content]]

\* whether a record deserializes
Deserializable(rec) ==
    \A i \in 1..Len(rec) : TagRole(rec[i].role) # NoRole

\* the Session a deserializable record yields
Deserialize(rec) ==
    [messages |->
        [i \in 1..Len(rec) |-> Message_new(TagRole(rec[i].role), rec[i].content)]]

\* the store after a successful save: the record of that name is overwritten
write_record(d, filename, rec) ==
    [n \in DOMAIN d \cup {filename} |-> IF n = filename THEN rec ELSE d[n]]

\* Session::save: the possible results [ok, disk] (it may fail on I/O)
Session_save(s, filename, d) ==
    {[ok |-> TRUE, disk |-> write_record(d, filename, Serialize(s))],
     [ok |-> FALSE, disk |-> d]}

\* Session::load: [ok, session]; NotFound or a deserialization error otherwise
Session_load(filename, d) ==
    IF filename \in DOMAIN d /\ Deserializable(d[filename])
    THEN [ok |-> TRUE, session |-> Deserialize(d[filename])]
    ELSE [ok |-> FALSE, session |-> Session_new]

RECURSIVE SetToSeq(_)
SetToSeq(S) ==
    IF S = {} THEN <<>>
    ELSE LET x == CHOOSE x \in S : TRUE IN <<x>> \o SetToSeq(S \ {x})

\* Session::list_all: the possible results [ok, names] (it may fail on I/O)
Session_list_all(d) ==
    {[ok |-> TRUE, names |-> SetToSeq(DOMAIN d)], [ok |-> FALSE, names |-> <<>>]}

\* Session::delete: the possible results [ok, disk]; it fails if the record is
\* absent (and may fail on I/O)
Session_delete(filename, d) ==
    IF filename \in DOMAIN d
    THEN {[ok |-> TRUE, disk |-> [n \in DOMAIN d \ {filename} |-> d[n]]],
          [ok |-> FALSE, disk |-> d]}
    ELSE {[ok |-> FALSE, disk |-> d]}

-----------------------------------------------------------------------------
\* handle_command.

\* Printer messages: print_app_message / print_error_message
app(text) == [kind |-> "app", text |-> text, arg |-> None]
appf(text, arg) == [kind |-> "app", text |-> text, arg |-> Some(arg)]
error(text) == [kind |-> "error", text |-> text, arg |-> None]
errorf(text, arg) == [kind |-> "error", text |-> text, arg |-> Some(arg)]

\* What a match arm does when every print succeeds: the new session, backend
\* and disk, the messages it prints in order, and the value it returns.
Out(s, cb, d, prints, r) ==
    [session |-> s, chatbot |-> cb, disk |-> d, prints |-> prints, ret |-> r]

\* variant of clear: the system prompt survives
clear_keeps_system(messages) == SelectSeq(messages, LAMBDA msg : msg.role = "System")

\* "/clear" | "/c": session.messages.clear()
clear(messages) == <<>>

ClearArm(s, cb, d) ==
    Out([s EXCEPT !.messages = clear(s.messages)], cb, d,
        <<app("Context cleared.")>>, "Ok")

\* variant of retain_not_system: nothing is removed
retain_all(messages) == messages

\* variant of retain_not_system: nothing is kept
retain_none(messages) == <<>>

\* session.messages.retain(|msg| msg.role != Role::System)
retain_not_system(messages) == SelectSeq(messages, LAMBDA msg : msg.role # "System")

\* variant of insert_0: the message is pushed at the end
insert_last(messages, new_msg) == Append(messages, new_msg)

\* session.messages.insert(0, new_msg)
insert_0(messages, new_msg) == <<new_msg>> \o messages

\* "/system" | "/sys"
SystemArm(parts, s, cb, d) ==
    IF Len(parts) > 1
    THEN LET new_msg == Message_new("System", join(Tail(parts), SPACE))
         IN  Out([s EXCEPT !.messages = insert_0(retain_not_system(s.messages), new_msg)],
                 cb, d, <<app("System prompt set.")>>, "Ok")
    ELSE Out(s, cb, d,
             <<error("System prompt is required. Usage: /system <prompt>")>>, "Ok")

\* variant of switch_to: the new backend starts on an empty transcript
switch_to_fresh(s, cb, d, new_chatbot) ==
    Out(Session_new, new_chatbot, d, <<appf("Chatbot changed to {}", name(new_chatbot))>>, "Ok")

\* *chatbot = new_chatbot, then the confirmation
switch_to(s, cb, d, new_chatbot) ==
    Out(s, new_chatbot, d, <<appf("Chatbot changed to {}", name(new_chatbot))>>, "Ok")

\* variant of invalid_chatbot: an unknown name falls back to the default backend
invalid_chatbot_falls_back(s, cb, d) ==
    Out(s, GeminiChatbot_create(GEMINI_FLASH, None), d, <<error("Invalid chatbot.")>>, "Ok")

\* the `_ =>` arm of the match on the chatbot name
invalid_chatbot(s, cb, d) == Out(s, cb, d, <<error("Invalid chatbot.")>>, "Ok")

\* "/chatbot" | "/cb"; GeminiChatbot::create may fail
ChatbotArm(parts, s, cb, d) ==
    IF Len(parts) > 1
    THEN IF parts[2] = GEMINI
         THEN {switch_to(s, cb, d, GeminiChatbot_create(GEMINI_FLASH, None)),
               Out(s, cb, d, <<>>, "Err(ChatbotSwitch)")}
         ELSE IF parts[2] = DUMMY
         THEN {switch_to(s, cb, d, DummyChatbot_create(ONE, None))}
         ELSE {invalid_chatbot(s, cb, d)}
    ELSE {Out(s, cb, d, <<error("Chatbot is required. Usage: /chatbot <chatbot>")>>, "Ok")}

\* "/list_chatbots" | "/lc"
ListChatbotsArm(s, cb, d) ==
    Out(s, cb, d,
        <<app("Available chatbots:"), app("\tgemini - Google Gemini"),
          app("\tdummy - Dummy")>>, "Ok")

\* "/model" | "/m"
ModelArm(parts, s, cb, d) ==
    IF Len(parts) > 1
    THEN LET r == change_model(cb, parts[2])
         IN  IF r.ok
             THEN Out(s, r.chatbot, d,
                      <<appf("Chatbot model changed to {}", model(r.chatbot))>>, "Ok")
             ELSE Out(s, r.chatbot, d, <<errorf("{}", INVALID_MODEL)>>, "Ok")
    ELSE Out(s, cb, d, <<error("Model is required. Usage: /model <model>")>>, "Ok")

\* "/list_models" | "/lm"
ListModelsArm(s, cb, d) ==
    Out(s, cb, d,
        <<app("Available models:")>>
            \o [i \in 1..Len(available_models(cb)) |-> appf("\t{}", available_models(cb)[i])],
        "Ok")

\* session.messages.iter().find(|msg| msg.role == Role::System)
find_system(messages) == SelectSeq(messages, LAMBDA msg : msg.role = "System")

\* "/info" | "/i"
InfoArm(s, cb, d) ==
    Out(s, cb, d,
        <<appf("Current chatbot: {}", name(cb)), appf("Current model: {}", model(cb))>>
            \o (IF find_system(s.messages) # <<>>
                THEN <<appf("System prompt: {}", find_system(s.messages)[1].content)>>
                ELSE <<>>),
        "Ok")

\* "/help" | "/h"
HelpArm(s, cb, d) ==
    Out(s, cb, d,
        <<app("Available commands:"),
          app("\t/clear or /c - Clear the conversation history (including system prompt)"),
          app("\t/system <prompt> or /sys <prompt> - Set the system prompt"),
          app("\t/chatbot <chatbot> or /cb <chatbot> - Change the chatbot"),
          app("\t/list_chatbots or /lc - List all available chatbots"),
          app("\t/model <model> or /m <model> - Change the chatbot model"),
          app("\t/list_models or /lm - List all available models for current chatbot"),
          app("\t/info or /i - Display current chatbot and model information"),
          app("\t/save <filename> or /s <filename> - Save the session"),
          app("\t/load <filename> or /l <filename> - Load a saved session"),
          app("\t/delete <filename> or /d - Delete a session"),
          app("\t/sessions or /se - List all saved session"),
          app("\t/delete <filename> or /d - Delete a session"),
          app("\t/help or /h - List all available commands"),
          app("\t/quit or /q - Exit the application")>>, "Ok")

\* "/save" | "/s"
SaveArm(parts, s, cb, d) ==
    IF Len(parts) > 1
    THEN {IF r.ok
          THEN Out(s, cb, r.disk, <<appf("Session saved to {}.json", parts[2])>>, "Ok")
          ELSE Out(s, cb, d, <<>>, "Err(Session)") : r \in Session_save(s, parts[2], d)}
    ELSE {Out(s, cb, d, <<error("Filename is required. Usage: /save <filename>")>>, "Ok")}

\* variant of replace_session: the loaded messages are added to the current ones
merge_session(s, loaded_session) ==
    [s EXCEPT !.messages = @ \o loaded_session.messages]

\* *session = loaded_session
replace_session(s, loaded_session) == loaded_session

\* variant of LoadArm: a failed load leaves a fresh session behind
LoadArmResetsOnFailure(parts, s, cb, d) ==
    IF Len(parts) > 1
    THEN LET r == Session_load(parts[2], d)
         IN  IF r.ok
             THEN Out(replace_session(s, r.session), cb, d,
                      <<appf("Session loaded from {}.json", parts[2])>>, "Ok")
             ELSE Out(Session_new, cb, d, <<>>, "Err(Session)")
    ELSE Out(s, cb, d, <<error("Filename is required. Usage: /load <filename>")>>, "Ok")

\* "/load" | "/l"
LoadArm(parts, s, cb, d) ==
    IF Len(parts) > 1
    THEN LET r == Session_load(parts[2], d)
         IN  IF r.ok
             THEN Out(replace_session(s, r.session), cb, d,
                      <<appf("Session loaded from {}.json", parts[2])>>, "Ok")
             ELSE Out(s, cb, d, <<>>, "Err(Session)")
    ELSE Out(s, cb, d, <<error("Filename is required. Usage: /load <filename>")>>, "Ok")

\* "/sessions" | "/se"
SessionsArm(s, cb, d) ==
    {IF r.ok
     THEN IF r.names = <<>>
          THEN Out(s, cb, d, <<error("No saved sessions found.")>>, "Ok")
          ELSE Out(s, cb, d,
                   <<app("Saved sessions:")>>
                       \o [i \in 1..Len(r.names) |-> appf("\t{}", r.names[i])], "Ok")
     ELSE Out(s, cb, d, <<>>, "Err(Session)") : r \in Session_list_all(d)}

\* "/delete" | "/d"
DeleteArm(parts, s, cb, d) ==
    IF Len(parts) > 1
    THEN {IF r.ok
          THEN Out(s, cb, r.disk, <<appf("Session {}.json deleted.", parts[2])>>, "Ok")
          ELSE Out(s, cb, d, <<>>, "Err(Session)") : r \in Session_delete(parts[2], d)}
    ELSE {Out(s, cb, d, <<error("Filename is required. Usage: /delete <filename>")>>, "Ok")}

\* "/quit" | "/q"
QuitArm(s, cb, d) == Out(s, cb, d, <<app("Quitting...")>>, "Err(Quit)")

\* _ =>
InvalidArm(s, cb, d) ==
    Out(s, cb, d,
        <<error("Invalid command. Use /help or /h for a list of commands.")>>, "Ok")

\* The match on the first token: the possible outcomes of the arm taken when
\* every print succeeds (more than one where an external call may fail).
Dispatch(parts, s, cb, d) ==
    LET command == parts[1]
    IN  CASE command \in {CLEAR, C_} -> {ClearArm(s, cb, d)}
          [] command \in {SYSTEM, SYS} -> {SystemArm(parts, s, cb, d)}
          [] command \in {CHATBOT, CB} -> ChatbotArm(parts, s, cb, d)
          [] command \in {LIST_CHATBOTS, LC} -> {ListChatbotsArm(s, cb, d)}
          [] command \in {MODEL, M_} -> {ModelArm(parts, s, cb, d)}
          [] command \in {LIST_MODELS, LM} -> {ListModelsArm(s, cb, d)}
          [] command \in {INFO, I_} -> {InfoArm(s, cb, d)}
          [] command \in {HELP, H_} -> {HelpArm(s, cb, d)}
          [] command \in {SAVE, S_} -> SaveArm(parts, s, cb, d)
          [] command \in {LOAD, L_} -> {LoadArm(parts, s, cb, d)}
          [] command \in {SESSIONS, SE} -> SessionsArm(s, cb, d)
          [] command \in {DELETE, D_} -> DeleteArm(parts, s, cb, d)
          [] command \in {QUIT, Q_} -> {QuitArm(s, cb, d)}
          [] OTHER -> {InvalidArm(s, cb, d)}

\* Every print is followed by `?`: when the failAt-th print of the arm fails
\* the arm returns Err(Print) there; what it did before that print stays done.
print_fails(out, failAt) ==
    [out EXCEPT !.prints = SubSeq(out.prints, 1, failAt - 1), !.ret = "Err(Print)"]

\* the outcomes of an arm: every print succeeds, or one of them fails
with_prints(out) == {out} \cup {print_fails(out, k) : k \in 1..Len(out.prints)}

\* handle_command(line, session, chatbot, printer): the possible outcomes
handle_command(line, s, cb, d) ==
    LET parts == split_whitespace(line)
    IN  IF parts = <<>>
        THEN with_prints(Out(s, cb, d, <<error("No command specified.")>>, "Ok"))
        ELSE UNION {with_prints(out) : out \in Dispatch(parts, s, cb, d)}

-----------------------------------------------------------------------------
\* The environment: what the user types and what the outside world holds.

Lines ==
    {L_EMPTY, L_BLANK, L_HELLO, L_CLEAR, L_C, L_SYSTEM_TERSE, L_SYS_BRIEF, L_SYSTEM,
     L_CHATBOT_DUMMY, L_CB_GEMINI, L_CHATBOT_BOGUS, L_CHATBOT,
     L_MODEL_FLASH, L_M_BOGUS, L_MODEL, L_LIST_CHATBOTS, L_LM, L_INFO, L_HELP,
     L_SAVE_N, L_SAVE, L_LOAD_N, L_LOAD, L_SESSIONS, L_DELETE_N, L_DELETE,
     L_QUIT, L_Q, L_BOGUS, L_SLASH}

\* --system-prompt
SystemPrompts == {None, Some(T_BRIEF)}

\* the one-shot prompt argument
Prompts == {None, Some(T_HELLO), Some(DASH)}

\* io::stdin().read_to_string(&mut input)
StdinReads == {Ok(T_HI_NL), Err("io")}

\* the backend main() hands to run_chat
StartChatbots ==
    {DummyChatbot_create(<<>>, None), GeminiChatbot_create(T_GEMINI_PRO, None)}

\* the session store when run_chat starts
InitDisks == {<<>>}

-----------------------------------------------------------------------------
\* run_chat.

\* session.messages.push(Message::new(Role::System, system_prompt))
push_system(s, sp) ==
    IF sp # None
    THEN [s EXCEPT !.messages = Append(@, Message_new("System", sp[1]))]
    ELSE s

\* session.messages.push(Message::new(Role::User, input))
push_user(messages, input) == Append(messages, Message_new("User", input))

Init ==
    /\ pc = "start"
    /\ system_prompt \in SystemPrompts
    /\ prompt \in Prompts
    /\ isTerminal \in BOOLEAN
    /\ chatbot \in StartChatbots
    /\ disk \in InitDisks
    /\ session = Session_new
    /\ stream = <<>>
    /\ pos = 0
    /\ full_resp = <<>>
    /\ printed = <<>>
    /\ ret = None
    /\ report = <<>>
    /\ cmdResult = "None"
    /\ result = "Running"
    /\ lastLine = None
    /\ event = "init"
    /\ before = <<>>
    /\ saved = <<>>
    /\ repeat = FALSE
    /\ prevDummy = FALSE

\* One-shot mode: the prompt argument (or standard input for "-") is the single
\* user message; the backend call follows.
StartOneShot ==
    /\ pc = "start"
    /\ prompt # None
    /\ \E rd \in (IF prompt[1] = DASH THEN StdinReads ELSE {Ok(prompt[1])}),
          prefixOk \in BOOLEAN :
          LET s0 == push_system(Session_new, system_prompt)
          IN  /\ before' = s0.messages
              /\ IF ~rd.ok
                 THEN /\ session' = s0
                      /\ lastLine' = None
                      /\ report' = <<>>
                      /\ pc' = "done"
                      /\ result' = "Err(Read)"
                      /\ event' = "start_err"
                 ELSE /\ session' = [s0 EXCEPT !.messages = push_user(@, rd.text)]
                      /\ lastLine' = Some(rd.text)
                      /\ IF prefixOk
                         THEN /\ report' = <<[kind |-> "chatbot_prefix", text |-> "{}",
                                              arg |-> Some(name(chatbot))]>>
                              /\ pc' = "send"
                              /\ result' = "Running"
                              /\ event' = "chat"
                         ELSE /\ report' = <<>>
                              /\ pc' = "done"
                              /\ result' = "Err(Print)"
                              /\ event' = "start_err"
    /\ system_prompt' = None
    /\ UNCHANGED <<prompt, isTerminal, chatbot, disk, stream, pos, full_resp,
                   printed, ret, cmdResult, saved, repeat, prevDummy>>

\* Interactive mode: the line editor is created and the loop is entered.
StartInteractive ==
    /\ pc = "start"
    /\ prompt = None
    /\ session' = push_system(Session_new, system_prompt)
    /\ \E editorOk \in BOOLEAN :
          IF editorOk
          THEN pc' = "await" /\ result' = "Running" /\ event' = "started"
          ELSE pc' = "done" /\ result' = "Err(Readline)" /\ event' = "start_err"
    /\ system_prompt' = None
    /\ UNCHANGED <<prompt, isTerminal, chatbot, disk, stream, pos, full_resp,
                   printed, ret, report, cmdResult, lastLine, before, saved, repeat,
                   prevDummy>>

\* history: what /save and /delete do to `saved` (a save or delete has taken
\* effect when the arm got as far as printing its confirmation)
saved_after(parts, out, messages, sv) ==
    IF Len(parts) > 1 /\ out.ret # "Err(Session)" /\ parts[1] \in {SAVE, S_}
    THEN [n \in DOMAIN sv \cup {parts[2]} |-> IF n = parts[2] THEN messages ELSE sv[n]]
    ELSE IF Len(parts) > 1 /\ out.ret # "Err(Session)" /\ parts[1] \in {DELETE, D_}
    THEN [n \in DOMAIN sv \ {parts[2]} |-> sv[n]]
    ELSE sv

\* history: the last line read was a `/chatbot dummy` that succeeded
dummy_switched ==
    /\ event = "command"
    /\ cmdResult = "Ok"
    /\ lastLine # None
    /\ LET parts == split_whitespace(lastLine[1])
       IN  Len(parts) > 1 /\ parts[1] \in {CHATBOT, CB} /\ parts[2] = DUMMY

\* The locals and the dropped result of the previous handle_chat_message call
\* no longer exist in the next loop iteration.
ChatLocalsDropped ==
    /\ stream' = <<>>
    /\ pos' = 0
    /\ full_resp' = <<>>
    /\ printed' = <<>>
    /\ ret' = None

\* rl.readline fails (end of input, interrupt, I/O error)
ReadlineError ==
    /\ pc = "await"
    /\ pc' = "done"
    /\ result' = "Err(Readline)"
    /\ event' = "read_err"
    /\ UNCHANGED <<system_prompt, prompt, isTerminal, session, chatbot, disk, stream,
                   pos, full_resp, printed, ret, report, cmdResult, lastLine, before,
                   saved, repeat, prevDummy>>

\* A blank line: `continue`.
Blank ==
    /\ pc = "await"
    /\ \E input \in Lines :
          /\ trim_is_empty(input)
          /\ lastLine' = Some(input)
          /\ repeat' = (lastLine = Some(input))
    /\ prevDummy' = dummy_switched
    /\ before' = session.messages
    /\ report' = <<>>
    /\ cmdResult' = "None"
    /\ event' = "blank"
    /\ ChatLocalsDropped
    /\ UNCHANGED <<pc, system_prompt, prompt, isTerminal, session, chatbot, disk,
                   result, saved>>

\* A line starting with '/': handle_command(...)?; continue.
Command ==
    /\ pc = "await"
    /\ \E input \in Lines :
          /\ ~trim_is_empty(input)
          /\ starts_with_slash(input)
          /\ \E out \in handle_command(input, session, chatbot, disk) :
                /\ session' = out.session
                /\ chatbot' = out.chatbot
                /\ disk' = out.disk
                /\ report' = out.prints
                /\ cmdResult' = out.ret
                /\ saved' = saved_after(split_whitespace(input), out, session.messages, saved)
                /\ IF out.ret = "Ok"
                   THEN pc' = "await" /\ result' = "Running"
                   ELSE pc' = "done" /\ result' = "Err(Command)"
          /\ lastLine' = Some(input)
          /\ repeat' = (lastLine = Some(input))
    /\ prevDummy' = dummy_switched
    /\ before' = session.messages
    /\ event' = "command"
    /\ ChatLocalsDropped
    /\ UNCHANGED <<system_prompt, prompt, isTerminal>>

\* Any other line is a chat message: it is pushed and the backend is called.
ChatLine ==
    /\ pc = "await"
    /\ Len(session.messages) < MaxMsgs
    /\ \E input \in Lines :
          /\ ~trim_is_empty(input)
          /\ ~starts_with_slash(input)
          /\ session' = [session EXCEPT !.messages = push_user(@, input)]
          /\ lastLine' = Some(input)
          /\ repeat' = (lastLine = Some(input))
    /\ prevDummy' = dummy_switched
    /\ before' = session.messages
    /\ report' = <<>>
    /\ cmdResult' = "None"
    /\ pc' = "send"
    /\ event' = "chat"
    /\ ChatLocalsDropped
    /\ UNCHANGED <<system_prompt, prompt, isTerminal, chatbot, disk, result, saved>>

-----------------------------------------------------------------------------
\* handle_chat_message, one step per await.

\* variant of push_str: the chunk goes in front
push_front(full, text) == text \o full

\* full_resp.push_str(&text)
push_str(full, text) == full \o text

\* let mut stream = chatbot.send_message(hist).await?
SendMessage ==
    /\ pc = "send"
    /\ \E o \in (IF chatbot.kind = "Dummy"
                 THEN {DummyChatbot_send_message(session.messages)}
                 ELSE SendOutcomes) :
          IF o.ok
          THEN /\ stream' = o.stream
               /\ ret' = None
               /\ pc' = "stream"
               /\ result' = "Running"
               /\ event' = "sent"
          ELSE /\ stream' = <<>>
               /\ ret' = Some(Err(o.err))
               /\ pc' = "done"
               /\ result' = "Err(Chatbot)"
               /\ event' = "send_err"
    /\ pos' = 0
    /\ full_resp' = <<>>
    /\ printed' = <<>>
    /\ UNCHANGED <<system_prompt, prompt, isTerminal, session, chatbot, disk, report,
                   cmdResult, lastLine, before, saved, repeat, prevDummy>>

\* variant of StreamNext: an error item is noted and the drain goes on
StreamNextSkipsErrors ==
    /\ pc = "stream"
    /\ pos < Len(stream)
    /\ pos' = pos + 1
    /\ LET item == stream[pos + 1]
       IN  IF item.ok
           THEN /\ printed' = Append(printed, item.text)
                /\ full_resp' = push_str(full_resp, item.text)
                /\ event' = "chunk"
                /\ UNCHANGED <<pc, ret, result>>
           ELSE /\ ret' = Some(Err(item.err))
                /\ event' = "stream_err"
                /\ UNCHANGED <<pc, result, printed, full_resp>>
    /\ UNCHANGED <<system_prompt, prompt, isTerminal, session, chatbot, disk, stream,
                   report, cmdResult, lastLine, before, saved, repeat, prevDummy>>

\* variant of StreamNext: each chunk is also written into the transcript
StreamNextWritesSession ==
    /\ pc = "stream"
    /\ pos < Len(stream)
    /\ pos' = pos + 1
    /\ LET item == stream[pos + 1]
       IN  IF item.ok
           THEN /\ printed' = Append(printed, item.text)
                /\ full_resp' = push_str(full_resp, item.text)
                /\ session' = [session EXCEPT !.messages =
                                  Append(@, Message_new("Assistant", item.text))]
                /\ event' = "chunk"
                /\ UNCHANGED <<pc, ret, result>>
           ELSE /\ ret' = Some(Err(item.err))
                /\ pc' = "done"
                /\ result' = "Err(Chatbot)"
                /\ event' = "stream_err"
                /\ UNCHANGED <<printed, full_resp, session>>
    /\ UNCHANGED <<system_prompt, prompt, isTerminal, chatbot, disk, stream,
                   report, cmdResult, lastLine, before, saved, repeat, prevDummy>>

\* stream.next().await yields Some(result)
StreamNext ==
    /\ pc = "stream"
    /\ pos < Len(stream)
    /\ pos' = pos + 1
    /\ LET item == stream[pos + 1]
       IN  IF item.ok
           THEN /\ printed' = Append(printed, item.text)
                /\ full_resp' = push_str(full_resp, item.text)
                /\ event' = "chunk"
                /\ UNCHANGED <<pc, ret, result>>
           ELSE /\ ret' = Some(Err(item.err))
                /\ pc' = "done"
                /\ result' = "Err(Chatbot)"
                /\ event' = "stream_err"
                /\ UNCHANGED <<printed, full_resp>>
    /\ UNCHANGED <<system_prompt, prompt, isTerminal, session, chatbot, disk, stream,
                   report, cmdResult, lastLine, before, saved, repeat, prevDummy>>

\* variant of turn_ends_run: only the one-shot mode returns after its turn
turn_ends_run_oneshot_only(p, terminal) == p # None

\* variant of turn_ends_run: only standard input that is not a terminal ends the run
turn_ends_run_piped_only(p, terminal) == ~terminal

\* after a completed turn run_chat returns Ok(()) in one-shot mode
\* (`return Ok(())`) and when `!io::stdin().is_terminal()` (`break Ok(())`)
turn_ends_run(p, terminal) == p # None \/ ~terminal

\* the value handle_chat_message returns when the stream is exhausted
assistant_message(full) == [ok |-> TRUE, msg |-> Message_new("Assistant", full)]

\* stream.next().await yields None: handle_chat_message returns the Assistant
\* message; run_chat drops it and returns (one-shot, or standard input is not a
\* terminal) or loops.
StreamEnd ==
    /\ pc = "stream"
    /\ pos = Len(stream)
    /\ ret' = Some(assistant_message(full_resp))
    /\ IF turn_ends_run(prompt, isTerminal)
       THEN pc' = "done" /\ result' = "Ok"
       ELSE pc' = "await" /\ result' = "Running"
    /\ event' = "turn_ok"
    /\ UNCHANGED <<system_prompt, prompt, isTerminal, session, chatbot, disk, stream,
                   pos, full_resp, printed, report, cmdResult, lastLine, before,
                   saved, repeat, prevDummy>>

Next ==
    \/ StartOneShot
    \/ StartInteractive
    \/ ReadlineError
    \/ Blank
    \/ Command
    \/ ChatLine
    \/ SendMessage
    \/ StreamNext
    \/ StreamEnd

Spec == Init /\ [][Next]_vars

-----------------------------------------------------------------------------
\* handle_chat_message and the backends as functions of the history: the call
\* is made on every history of a bounded set, not only on those run_chat builds.

\* Longest history handed to send_message.
MaxHist == 2

HistMessages == {Message_new(r, c) : r \in Role, c \in {T_HELLO, T_X}}

Histories == UNION {[1..n -> HistMessages] : n \in 0..MaxHist}

InitChat ==
    /\ pc = "send"
    /\ system_prompt = None
    /\ prompt = None
    /\ isTerminal = FALSE
    /\ chatbot \in StartChatbots
    /\ disk = <<>>
    /\ session \in {[messages |-> h] : h \in Histories}
    /\ stream = <<>>
    /\ pos = 0
    /\ full_resp = <<>>
    /\ printed = <<>>
    /\ ret = None
    /\ report = <<>>
    /\ cmdResult = "None"
    /\ result = "Running"
    /\ lastLine = None
    /\ event = "init"
    /\ before = <<>>
    /\ saved = <<>>
    /\ repeat = FALSE
    /\ prevDummy = FALSE

NextChat ==
    \/ SendMessage
    \/ StreamNext
    \/ StreamEnd

SpecChat == InitChat /\ [][NextChat]_vars

-----------------------------------------------------------------------------
\* Properties.

\* the tokens of the last line read
LastParts == IF lastLine = None THEN <<>> ELSE split_whitespace(lastLine[1])

\* the last step was handle_command on one of the given command names
LastCommand(names) == event = "command" /\ LastParts # <<>> /\ LastParts[1] \in names

\* the number of System messages
SystemCount(messages) == Len(SelectSeq(messages, LAMBDA msg : msg.role = "System"))

\* the texts of a sequence of Ok items
Texts(items) == [i \in 1..Len(items) |-> items[i].text]

RECURSIVE Concat(_)
Concat(texts) == IF texts = <<>> THEN <<>> ELSE texts[1] \o Concat(Tail(texts))

\* C1: when a chat turn of the interactive loop completes, the transcript is
\* the transcript from before the line was read followed by the User message
\* with the input and the Assistant message with the accumulated response.
C1_TurnAppendsUserAndAssistant ==
    (event = "turn_ok" /\ prompt = None) =>
        session.messages =
            before \o <<Message_new("User", lastLine[1]),
                        Message_new("Assistant", full_resp)>>

\* C2: the transcript never holds more than one System message, and a System
\* message is at position 0 (index 1 here).
C2_AtMostOneSystemFirst ==
    /\ SystemCount(session.messages) <= 1
    /\ \A i \in 1..Len(session.messages) :
          session.messages[i].role = "System" => i = 1

\* C2 witness: `/system You are terse.` was issued twice in a row on a
\* transcript that also holds other messages.
C2_Witness ==
    /\ event = "command"
    /\ repeat
    /\ lastLine = Some(L_SYSTEM_TERSE)
    /\ Len(session.messages) >= 2
    /\ session.messages[1] = Message_new("System", T_TERSE)

\* C3: a command that fails is reported and the loop awaits the next line; a
\* command ends the loop only when it is /quit or /q.
C3_OnlyQuitTerminates ==
    /\ (event = "command" /\ cmdResult \in {"Err(Session)", "Err(ChatbotSwitch)"})
          => pc = "await"
    /\ (event = "command" /\ pc = "done" /\ cmdResult # "Err(Print)")
          => LastParts[1] \in {QUIT, Q_}

\* C4: in the interactive loop a failed send_message or an error item of the
\* stream abandons the turn and the loop awaits the next line.
C4_ChatbotErrorContinues ==
    (prompt = None /\ event \in {"send_err", "stream_err"}) => pc = "await"

\* the last line read was `/chatbot <name>` with a name that is no known variant
LastChatbotUnknown ==
    /\ LastCommand({CHATBOT, CB})
    /\ Len(LastParts) > 1
    /\ LastParts[2] \notin {GEMINI, DUMMY}

\* C5: after `/chatbot dummy`, `/chatbot <unknown name>` leaves the dummy
\* backend active, and what is reported is the invalid-chatbot error (the
\* command itself returns Ok unless that print fails).
C5_FailedSwitchKeepsDummy ==
    (prevDummy /\ LastChatbotUnknown) =>
        /\ chatbot = DummyChatbot_create(ONE, None)
        /\ cmdResult \in {"Ok", "Err(Print)"}
        /\ cmdResult = "Ok" => report = <<error("Invalid chatbot.")>>
        /\ cmdResult = "Err(Print)" => report = <<>>

\* C5 witness: `/chatbot dummy` then `/chatbot bogus`, reported.
C5_Witness ==
    /\ prevDummy
    /\ event = "command"
    /\ lastLine = Some(L_CHATBOT_BOGUS)
    /\ cmdResult = "Ok"
    /\ pc = "await"
    /\ chatbot.kind = "Dummy"
    /\ report = <<error("Invalid chatbot.")>>

\* the last line read was `/system <p>` with at least one argument token
LastSystemSet == LastCommand({SYSTEM, SYS}) /\ Len(LastParts) > 1

\* C6: when `/system <p>` is issued again right after `/system <p>`, the
\* transcript, the backend and the store are what they were after the first,
\* and the transcript holds exactly one System message, with content p, first.
C6_SystemIdempotent ==
    [][(/\ pc = "await"
        /\ LastSystemSet
        /\ event' = "command"
        /\ lastLine' = lastLine)
       => (/\ session' = session
           /\ chatbot' = chatbot
           /\ disk' = disk
           /\ SystemCount(session'.messages) = 1
           /\ session'.messages[1] =
                 Message_new("System", join(Tail(LastParts), SPACE)))]_vars

\* C6 witness: `/sys  be \t brief ` twice in a row, with other messages present.
C6_Witness ==
    /\ event = "command"
    /\ repeat
    /\ lastLine = Some(L_SYS_BRIEF)
    /\ cmdResult = "Ok"
    /\ Len(session.messages) >= 2
    /\ session.messages[1] = Message_new("System", T_BRIEF)
    /\ before = session.messages

\* C7: after /clear or /c the transcript is empty.
C7_ClearEmpties ==
    LastCommand({CLEAR, C_}) => session.messages = <<>>

\* C7 witness: /c on a transcript that holds only a System message.
C7_Witness ==
    /\ event = "command"
    /\ lastLine = Some(L_C)
    /\ before = <<Message_new("System", T_BRIEF)>>
    /\ session.messages = <<>>

\* C8: while an error-free stream is drained, the chunks printed so far are
\* exactly the chunks taken so far, in order, and full_resp is their
\* concatenation; when the stream is exhausted the value returned is an
\* Assistant message whose content is the concatenation of all chunks.
C8_StreamForwardedInOrder ==
    /\ (pc = "stream" \/ event = "turn_ok") =>
          /\ \A i \in 1..pos : stream[i].ok
          /\ printed = Texts(SubSeq(stream, 1, pos))
          /\ full_resp = Concat(Texts(SubSeq(stream, 1, pos)))
    /\ event = "turn_ok" =>
          /\ pos = Len(stream)
          /\ ret = Some([ok |-> TRUE,
                         msg |-> [role |-> "Assistant",
                                  content |-> Concat(Texts(stream))]])

\* C8 witness: the stream "ab", "c" was drained and "abc" returned.
C8_Witness ==
    /\ event = "turn_ok"
    /\ stream = <<Ok(T_AB), Ok(T_C)>>
    /\ printed = <<T_AB, T_C>>
    /\ ret = Some([ok |-> TRUE, msg |-> Message_new("Assistant", <<"a", "b", "c">>)])

\* C9: the no-op backend never fails, and its stream is one chunk fixed by the
\* last message of the history: the echo of a last User message, `Dummy
\* response.` after any other last message, and the empty-conversation text
\* for an empty history.
C9_DummyResponse ==
    chatbot.kind = "Dummy" =>
        /\ event \notin {"send_err", "stream_err"}
        /\ event = "sent" =>
              LET hist == session.messages
                  last == hist[Len(hist)]
              IN  /\ Len(stream) = 1
                  /\ stream[1].ok
                  /\ hist = <<>> => stream[1].text = DUMMY_EMPTY
                  /\ (hist # <<>> /\ last.role = "User") =>
                        stream[1].text = DUMMY_TO \o last.content \o DUMMY_TO_END
                  /\ (hist # <<>> /\ last = Message_new("User", T_HELLO)) =>
                        stream[1].text = T_DUMMY_HELLO
                  /\ (hist # <<>> /\ last.role # "User") =>
                        stream[1].text = DUMMY_PLAIN

\* C9 witness: a history ending in an Assistant message got `Dummy response.`
C9_Witness ==
    /\ chatbot.kind = "Dummy"
    /\ event = "sent"
    /\ Len(session.messages) = 2
    /\ session.messages[2].role = "Assistant"
    /\ stream = <<Ok(DUMMY_PLAIN)>>

\* C10: a /load of a name saved earlier in the run (and not deleted since)
\* that does not fail leaves the transcript equal, message by message, to the
\* transcript that was saved.
C10_SaveLoadRoundTrip ==
    (/\ LastCommand({LOAD, L_})
     /\ Len(LastParts) > 1
     /\ cmdResult # "Err(Session)"
     /\ LastParts[2] \in DOMAIN saved)
        => /\ Len(session.messages) = Len(saved[LastParts[2]])
           /\ \A i \in 1..Len(session.messages) :
                 /\ session.messages[i].role = saved[LastParts[2]][i].role
                 /\ session.messages[i].content = saved[LastParts[2]][i].content

\* C10 witness: a non-empty transcript was saved as n, the transcript was then
\* changed, and /load n brought the saved one back.
C10_Witness ==
    /\ event = "command"
    /\ lastLine = Some(L_LOAD_N)
    /\ cmdResult = "Ok"
    /\ T_N \in DOMAIN saved
    /\ Len(saved[T_N]) >= 2
    /\ before # saved[T_N]
    /\ before # <<>>
    /\ session.messages = saved[T_N]

\* the backend handle holds exactly one backend variant
OneBackend(cb) ==
    \/ cb = DummyChatbot_create(ONE, None)
    \/ /\ DOMAIN cb = {"kind", "model"}
       /\ cb.kind = "Gemini"

\* C11: after `/chatbot <name>` (or `/cb`), whether the switch succeeded, the
\* name was unknown, the name was missing or the backend could not be built,
\* the transcript is exactly the transcript from before the line was read, and
\* the handle holds exactly one backend, as it does in every state.
C11_SwitchKeepsTranscript ==
    /\ OneBackend(chatbot)
    /\ LastCommand({CHATBOT, CB}) => session.messages = before

\* a successful switch to the network backend on a transcript with a message
C11_Witness ==
    /\ LastCommand({CHATBOT, CB})
    /\ lastLine = Some(L_CB_GEMINI)
    /\ cmdResult = "Ok"
    /\ chatbot.kind = "Gemini"
    /\ before # <<>>
    /\ session.messages = before

\* the step reads a line in the loop of run_chat
ReadsLine == pc = "await" /\ event' \in {"blank", "command", "chat"}

\* every character of the text is a blank, a tab or a newline
OnlyWhitespace(text) == \A i \in 1..Len(text) : text[i] \in {" ", "\t", "\n"}

\* C12: a step of the loop that reads an empty or whitespace-only line leaves
\* the transcript, the backend handle and the saved records as they were,
\* dispatches no command (no command result, nothing printed), starts no
\* backend request (no stream is opened) and is back at awaiting input.
C12_BlankLineIgnored ==
    [][(ReadsLine /\ OnlyWhitespace(lastLine'[1]))
          => /\ event' = "blank"
             /\ session' = session
             /\ chatbot' = chatbot
             /\ disk' = disk
             /\ cmdResult' = "None"
             /\ report' = <<>>
             /\ stream' = <<>> /\ ret' = None
             /\ pc' = "await"]_vars

\* a line of a blank and a tab was read on a transcript with a message
C12_Witness ==
    /\ event = "blank"
    /\ lastLine = Some(L_BLANK)
    /\ before # <<>>
    /\ session.messages = before
    /\ pc = "await"

\* the text begins with the character "/"
BeginsWithSlash(text) == text # <<>> /\ Head(text) = "/"

\* C13: a step of the loop that reads a line beginning with "/" hands it to
\* handle_command, whatever the command name: the line is not appended as a
\* User message, and send_message is not invoked (the step ends at awaiting
\* input or at the end of run_chat, never in a chat turn, and opens no stream).
C13_SlashLineIsCommand ==
    [][(ReadsLine /\ BeginsWithSlash(lastLine'[1]))
          => /\ event' = "command"
             /\ cmdResult' # "None"
             /\ session'.messages # Append(session.messages, Message_new("User", lastLine'[1]))
             /\ pc' \in {"await", "done"}
             /\ stream' = <<>> /\ ret' = None]_vars

\* the unrecognized command "/" alone was dispatched on a transcript with a
\* message and changed nothing
C13_Witness ==
    /\ event = "command"
    /\ lastLine = Some(L_SLASH)
    /\ report = <<error("Invalid command. Use /help or /h for a list of commands.")>>
    /\ before # <<>>
    /\ session.messages = before
    /\ pc = "await"

UserCount(messages) == Len(SelectSeq(messages, LAMBDA msg : msg.role = "User"))

\* C15 (as claimed): a one-shot run ends with exactly one User message
\* appended and after its one send_message call, having read no input line of
\* the loop and dispatched no command.
C15_OneShotOneTurn ==
    (prompt # None /\ pc = "done") =>
        /\ UserCount(session.messages) = 1
        /\ event \in {"turn_ok", "send_err", "stream_err"}
        /\ cmdResult = "None"

\* C15 (amended): a one-shot run never reads an input line of the loop and
\* never dispatches a command; it appends exactly one User message, the prompt
\* text or the text read from standard input, unless reading standard input
\* failed, and then none; send_message is called at most once, straight after
\* startup, and exactly once unless that read or the print of the chatbot
\* prefix failed, and then run_chat returns that error without the call; after
\* the call run_chat ends with the outcome of the turn.
C15_OneShotAsCoded ==
    /\ [](prompt # None =>
            /\ pc # "await"
            /\ event \notin {"started", "blank", "command", "read_err"}
            /\ cmdResult = "None"
            /\ pc # "start" =>
                  session.messages =
                      before \o (IF lastLine = None THEN <<>>
                                 ELSE <<Message_new("User", lastLine[1])>>)
            /\ pc = "done" =>
                  \/ /\ result = "Err(Read)" /\ prompt = Some(DASH)
                     /\ event = "start_err" /\ lastLine = None
                  \/ /\ result = "Err(Print)"
                     /\ event = "start_err" /\ lastLine # None
                  \/ /\ result = "Err(Chatbot)"
                     /\ event \in {"send_err", "stream_err"} /\ lastLine # None
                  \/ /\ result = "Ok"
                     /\ event = "turn_ok" /\ lastLine # None)
    /\ [][prompt # None => (pc' # "start" /\ (pc' = "send" => pc = "start"))]_vars

\* the prompt "-": the text of standard input became the one User message,
\* the Gemini backend answered, and run_chat returned Ok(())
C15_Witness ==
    /\ prompt = Some(DASH)
    /\ chatbot.kind = "Gemini"
    /\ session.messages = Append(before, Message_new("User", T_HI_NL))
    /\ UserCount(session.messages) = 1
    /\ event = "turn_ok"
    /\ pc = "done"
    /\ result = "Ok"

\* C16: a step that dispatches `/model <name>` (or `/m <name>`) and reports
\* its outcome either reports InvalidModelError and leaves the backend handle,
\* and so model(), as it was, or reports the change and model() is <name>
\* afterwards; this for the no-op backend as for the network backend.
C16_ModelChangeTakesEffect ==
    [][(/\ ReadsLine
        /\ event' = "command"
        /\ cmdResult' = "Ok"
        /\ split_whitespace(lastLine'[1])[1] \in {MODEL, M_}
        /\ Len(split_whitespace(lastLine'[1])) > 1)
          => LET new_model == split_whitespace(lastLine'[1])[2]
             IN  \/ /\ report' = <<errorf("{}", INVALID_MODEL)>>
                    /\ chatbot' = chatbot
                 \/ /\ report' = <<appf("Chatbot model changed to {}", new_model)>>
                    /\ model(chatbot') = new_model]_vars

\* C17: handle_chat_message drains only Ok items: when it has taken an error
\* item, that item is the first error of the stream, the chunks forwarded and
\* accumulated are exactly the Ok chunks before it, the result is that error
\* and not an Assistant message, and nothing follows: no later chunk is taken
\* and send_message is not called again.
C17_StopsAtFirstError ==
    /\ [](/\ pc = "stream" => \A i \in 1..pos : stream[i].ok
          /\ event = "stream_err" =>
                /\ pos \in 1..Len(stream)
                /\ ~stream[pos].ok
                /\ \A i \in 1..(pos - 1) : stream[i].ok
                /\ printed = Texts(SubSeq(stream, 1, pos - 1))
                /\ full_resp = Concat(printed)
                /\ ret = Some(Err(stream[pos].err))
                /\ pc = "done"
                /\ result = "Err(Chatbot)")
    /\ [][event # "stream_err"]_vars

\* the first item of the stream was an error and an Ok chunk came after it:
\* nothing was forwarded and the error is the result
C17_Witness ==
    /\ event = "stream_err"
    /\ stream = <<Err("Timeout"), Ok(T_C)>>
    /\ pos = 1
    /\ printed = <<>>
    /\ full_resp = <<>>
    /\ ret = Some(Err("Timeout"))

\* a chat turn is outstanding: send_message is being called, or its stream is
\* being drained
InTurn == pc \in {"send", "stream"}

\* C18: every step taken while a chat turn is outstanding belongs to that one
\* turn: it reads no input line and dispatches no command, it leaves the
\* transcript, the backend handle and the saved records as they were, and,
\* once the stream is open, it opens no second one.
C18_OneTurnAtATime ==
    [][/\ InTurn =>
             /\ event' \in {"sent", "send_err", "chunk", "stream_err", "turn_ok"}
             /\ lastLine' = lastLine
             /\ cmdResult' = cmdResult
             /\ report' = report
             /\ session' = session
             /\ chatbot' = chatbot
             /\ disk' = disk
       /\ pc = "stream" => (event' # "sent" /\ stream' = stream)
       /\ event' = "sent" => (pc = "send" /\ pc' = "stream")
      ]_vars

\* in the middle of a turn of the loop: the first of two chunks has been
\* forwarded, the transcript is the one the request was made with
C18_Witness ==
    /\ prompt = None
    /\ pc = "stream"
    /\ Len(stream) = 2
    /\ pos = 1
    /\ printed = <<T_AB>>
    /\ session.messages = Append(before, Message_new("User", T_HELLO))

\* the messages whose role is not System, in order
NonSystem(messages) == SelectSeq(messages, LAMBDA msg : msg.role \in {"User", "Assistant"})

\* C19: after `/system <prompt>` (or `/sys`) with at least one argument the
\* messages that are not System messages are the ones from before the line
\* was read, in the same order, and the transcript is one longer than their
\* number; after `/system` with no argument the transcript is as it was.
C19_SystemTouchesOnlySystem ==
    LastCommand({SYSTEM, SYS}) =>
        IF Len(LastParts) > 1
        THEN /\ NonSystem(session.messages) = NonSystem(before)
             /\ Len(session.messages) = Len(NonSystem(before)) + 1
        ELSE session.messages = before

\* `/system You are terse.` on a transcript of a System and a User message:
\* the System message is replaced, the User message stays
C19_Witness ==
    /\ LastCommand({SYSTEM, SYS})
    /\ lastLine = Some(L_SYSTEM_TERSE)
    /\ before = <<Message_new("System", T_BRIEF), Message_new("User", T_HELLO)>>
    /\ session.messages = <<Message_new("System", T_TERSE), Message_new("User", T_HELLO)>>

\* the command names that only display something
Informational == {INFO, I_, HELP, H_, LIST_CHATBOTS, LC, LIST_MODELS, LM, SESSIONS, SE}

\* the command names that take an argument
WithArgument == {SYSTEM, SYS, CHATBOT, CB, MODEL, M_, SAVE, S_, LOAD, L_, DELETE, D_}

\* a dispatched command, by its tokens and its result, is informational,
\* unrecognized, lacks its argument, or failed: a session-storage error of
\* /save, /load, /delete or /sessions, a backend that could not be built, or an
\* unknown chatbot name
NoEffectCommand(parts, r) ==
    \/ parts[1] \in Informational
    \/ parts[1] \notin Informational \cup WithArgument \cup {CLEAR, C_, QUIT, Q_}
    \/ parts[1] \in WithArgument /\ Len(parts) = 1
    \/ r \in {"Err(Session)", "Err(ChatbotSwitch)"}
    \/ parts[1] \in {CHATBOT, CB} /\ Len(parts) > 1 /\ parts[2] \notin {GEMINI, DUMMY}

\* C20: a step that dispatches an informational command (`/info`, `/help`,
\* `/list_chatbots`, `/list_models`, `/sessions`), an unrecognized command, a
\* command without its argument, or a command that fails (`/load` of an absent
\* record, an error of `/save` or `/delete`, `/chatbot` with an unknown name
\* or a backend that cannot be built) leaves the transcript and the backend
\* handle exactly as they were.
C20_NoEffectCommands ==
    [][(/\ ReadsLine
        /\ event' = "command"
        /\ NoEffectCommand(split_whitespace(lastLine'[1]), cmdResult'))
          => (session' = session /\ chatbot' = chatbot)]_vars

\* `/load n` with no record n, on a transcript with a message: the load
\* failed and the transcript is as before
C20_Witness ==
    /\ event = "command"
    /\ lastLine = Some(L_LOAD_N)
    /\ cmdResult = "Err(Session)"
    /\ T_N \notin DOMAIN disk
    /\ before # <<>>
    /\ session.messages = before

====
